---- MODULE Spec2Model ----
(***************************************************************************)
(* Model of the fluent assertion facade of package assert:                 *)
(*   assert/string.go   AssertableString, its options and its methods      *)
(*   assert/time.go     AssertableTime and its methods                     *)
(*   the message file   shouldBeEqual ... shouldContainOnlyDigits          *)
(* The value packages (values.StringValue, types.TimeValue) are imported   *)
(* by the facade; their operations are modelled from the design document.  *)
(*                                                                         *)
(* A Go string is modelled as a sequence of characters, each character a   *)
(* one-element name ("a", " ", "eacute"); ByteLen gives the number of      *)
(* bytes of its UTF-8 encoding, which is what Go's len() counts.           *)
(***************************************************************************)
EXTENDS Integers, Sequences, FiniteSets, TLC

VARIABLES pc, raw, opts, first, a, t, calls, left

vars == <<pc, raw, opts, first, a, t, calls, left>>

(***************************************************************************)
(* Bounds of the model.                                                    *)
(***************************************************************************)
MaxOpts == 2
MaxCalls == 2
MaxTime == 2

(***************************************************************************)
(* Characters and strings.                                                 *)
(***************************************************************************)
SpaceChars == {" ", "\t"}
DigitChars == {"1", "2"}

\* strings.ToLower on one character.
LowerChar(c) ==
    CASE c = "A" -> "a"
      [] c = "B" -> "b"
      [] c = "C" -> "c"
      [] c = "X" -> "x"
      [] c = "Eacute" -> "eacute"
      [] OTHER -> c

\* strings.ToUpper on one character ("y", "z" have no upper form in the alphabet
\* of the model and are never upper-cased by the operations below).
UpperChar(c) ==
    CASE c = "a" -> "A"
      [] c = "b" -> "B"
      [] c = "c" -> "C"
      [] c = "x" -> "X"
      [] c = "eacute" -> "Eacute"
      [] OTHER -> c

\* Bytes of the UTF-8 encoding of a character: the accented letters take two.
ByteLen(c) == IF c \in {"eacute", "Eacute"} THEN 2 ELSE 1

\* Go's builtin len(s) of a string: its number of bytes.
RECURSIVE len(_)
len(s) == IF s = <<>> THEN 0 ELSE ByteLen(Head(s)) + len(Tail(s))

\* strings.ToLower
ToLower(s) == [i \in 1..Len(s) |-> LowerChar(s[i])]

\* strings.ToUpper
ToUpper(s) == [i \in 1..Len(s) |-> UpperChar(s[i])]

\* values.RemoveSpaces: deletes every whitespace character.
RemoveSpaces(s) == SelectSeq(s, LAMBDA c : c \notin SpaceChars)

\* strings.HasPrefix / strings.HasSuffix / strings.Contains
HasPrefix(s, p) == Len(p) <= Len(s) /\ SubSeq(s, 1, Len(p)) = p
HasSuffix(s, p) == Len(p) <= Len(s) /\ SubSeq(s, Len(s) - Len(p) + 1, Len(s)) = p
StrContains(s, p) == \E i \in 1..(Len(s) - Len(p) + 1) : SubSeq(s, i, i + Len(p) - 1) = p

\* strings.Count: the number of non-overlapping instances of p in s, scanning from
\* the left; for the empty p it is the number of characters plus one.
RECURSIVE StrCount(_, _)
StrCount(s, p) ==
    IF p = <<>> THEN Len(s) + 1
    ELSE IF Len(s) < Len(p) THEN 0
    ELSE IF HasPrefix(s, p) THEN 1 + StrCount(SubSeq(s, Len(p) + 1, Len(s)), p)
    ELSE StrCount(Tail(s), p)

(***************************************************************************)
(* values.StringValue: the raw value and its chain of decorators.          *)
(***************************************************************************)
NewStringValue(value) == [value |-> value, decorators |-> <<>>]

\* One decorator applied to a string.
Decorate(d, s) ==
    CASE d = "ToLower" -> ToLower(s)
      [] d = "RemoveSpaces" -> RemoveSpaces(s)

\* The chain applied to a string, first attached first.
RECURSIVE ApplyDecorators(_, _)
ApplyDecorators(ds, s) ==
    IF ds = <<>> THEN s ELSE ApplyDecorators(Tail(ds), Decorate(Head(ds), s))

\* StringValue.AddDecorator: a new value with the decorator appended to the chain.
AddDecorator(sv, d) == [sv EXCEPT !.decorators = Append(@, d)]

\* The materialized value: the raw value after the chain.
DecoratedValue(sv) == ApplyDecorators(sv.decorators, sv.value)

\* StringValue.Value: the value printed in a diagnostic (post-decorator).
Value(sv) == DecoratedValue(sv)

\* StringValue.Size: the number of characters of the materialized value.
Size(sv) == Len(DecoratedValue(sv))

\* Equality is case-sensitive unless the case-fold decorator is attached: the
\* chain normalizes the expected value as it normalizes the actual one.
StringValue_IsEqualTo(sv, expected) ==
    DecoratedValue(sv) = ApplyDecorators(sv.decorators, expected)

StringValue_IsEmpty(sv) == Size(sv) = 0
StringValue_IsNotEmpty(sv) == Size(sv) > 0
StringValue_Contains(sv, sub) == StrContains(DecoratedValue(sv), sub)
StringValue_DoesNotContain(sv, sub) == ~StrContains(DecoratedValue(sv), sub)
StringValue_ContainsIgnoringCase(sv, sub) ==
    StrContains(ToLower(DecoratedValue(sv)), ToLower(sub))
\* Subset policy: every character of the actual value is drawn from the expected one.
StringValue_ContainsOnly(sv, sub) ==
    LET v == DecoratedValue(sv)
    IN  \A i \in 1..Len(v) : \E j \in 1..Len(sub) : v[i] = sub[j]
StringValue_ContainsOnlyOnce(sv, sub) == StrCount(DecoratedValue(sv), sub) = 1
StringValue_ContainsWhitespaces(sv) ==
    LET v == DecoratedValue(sv) IN \E i \in 1..Len(v) : v[i] \in SpaceChars
StringValue_StartsWith(sv, sub) == HasPrefix(DecoratedValue(sv), sub)
StringValue_EndsWith(sv, sub) == HasSuffix(DecoratedValue(sv), sub)
StringValue_HasDigitsOnly(sv) ==
    LET v == DecoratedValue(sv) IN \A i \in 1..Len(v) : v[i] \in DigitChars
StringValue_IsLowerCase(sv) == LET v == DecoratedValue(sv) IN v = ToLower(v)
StringValue_IsUpperCase(sv) == LET v == DecoratedValue(sv) IN v = ToUpper(v)

(***************************************************************************)
(* types.TimeValue: an instant and the location it is represented in.      *)
(***************************************************************************)
NewTimeValue(value) == [value |-> value]
TimeValue_Value(tv) == tv.value
TimeValue_IsSameAs(tv, expected) == tv.value.inst = expected.inst
TimeValue_IsNotSameAs(tv, expected) == tv.value.inst # expected.inst
TimeValue_IsBefore(tv, expected) == tv.value.inst < expected.inst
TimeValue_IsAfter(tv, expected) == tv.value.inst > expected.inst

(***************************************************************************)
(* The diagnostic messages.  fmt.Sprintf is modelled by the format string  *)
(* together with the values substituted into it, in order.                 *)
(***************************************************************************)
Sprintf(format, args) == [format |-> format, args |-> args]

shouldBeEqual(actual, expected) ==
    Sprintf("assertion failed: expected value of = %+v, to be equal to %+v", <<actual, expected>>)
shouldNotBeEqual(actual, expected) ==
    Sprintf("assertion failed: expected value of = %+v, to be other than %+v", <<actual, expected>>)
shouldBeGreater(actual, expected) ==
    Sprintf("assertion failed: expected value of = %+v, to be greater than %+v", <<actual, expected>>)
shouldBeGreaterOrEqual(actual, expected) ==
    Sprintf("assertion failed: expected value of = %+v, to be greater than or equal to %+v", <<actual, expected>>)
shouldBeLessThan(actual, expected) ==
    Sprintf("assertion failed: expected value of = %+v, to be less than %+v", <<actual, expected>>)
shouldBeLessOrEqual(actual, expected) ==
    Sprintf("assertion failed: expected value of = %+v, to be less than or equal to %+v", <<actual, expected>>)
shouldBeEmpty(actual) ==
    Sprintf("assertion failed: expected %+v to be empty, but it's not", <<actual>>)
shouldNotBeEmpty(actual) ==
    Sprintf("assertion failed: expected %+v not to be empty, but it is", <<actual>>)
shouldContain(actual, elements) ==
    Sprintf("assertion failed: containable [%v] should contain [%+v], but it doesn't", <<actual, elements>>)
shouldContainIgnoringCase(actual, elements) ==
    Sprintf("assertion failed: containable [%v] should contain [%+v] ignoring case, but it doesn't", <<actual, elements>>)
shouldContainOnly(actual, elements) ==
    Sprintf("assertion failed: containable [%v] should contain only [%+v], but it doesn't", <<actual, elements>>)
shouldContainOnlyOnce(actual, elements) ==
    Sprintf("assertion failed: containable [%v] should contain [%+v] only once, but it doesn't", <<actual, elements>>)
shouldNotContain(actual, elements) ==
    Sprintf("assertion failed: containable [%v] should not contain [%+v], but it does", <<actual, elements>>)
shouldStartWith(actual, substr) ==
    Sprintf("assertion failed: expected value of [%v] to start with [%+v], but it doesn't", <<actual, substr>>)
shouldEndWith(actual, substr) ==
    Sprintf("assertion failed: expected value of [%v] to end with [%+v], but it doesn't", <<actual, substr>>)
shouldHaveSameSizeAs(actual, substr) ==
    Sprintf("assertion failed: expected size of [%v] should be same as the size of [%+v], but it isn't", <<actual, substr>>)
shouldBeShorter(actual, expected) ==
    Sprintf("assertion failed: expected value of = %+v, to be greater than %+v", <<actual, expected>>)
shouldBeLonger(actual, expected) ==
    Sprintf("assertion failed: expected value of = %+v, to be longer than %+v", <<actual, expected>>)
shouldContainOnlyDigits(actual) ==
    Sprintf("assertion failed: expected %+v to have only digits, but it's not", <<actual>>)

\* Messages the facade calls whose text is not part of the message file at hand:
\* one template per relation, named after the relation.
shouldBeLowerCase(actual) ==
    Sprintf("assertion failed: expected %+v to be lower case, but it's not", <<actual>>)
shouldBeUpperCase(actual) ==
    Sprintf("assertion failed: expected %+v to be upper case, but it's not", <<actual>>)
shouldContainWhiteSpace(actual) ==
    Sprintf("assertion failed: expected %+v to contain whitespace, but it doesn't", <<actual>>)
shouldNotContainAnyWhiteSpace(actual) ==
    Sprintf("assertion failed: expected %+v not to contain whitespace, but it does", <<actual>>)
shouldNotStartWith(actual, substr) ==
    Sprintf("assertion failed: expected value of [%v] not to start with [%+v], but it does", <<actual, substr>>)
shouldNotEndWith(actual, substr) ==
    Sprintf("assertion failed: expected value of [%v] not to end with [%+v], but it does", <<actual, substr>>)

(***************************************************************************)
(* The test context.  testing.T's Error logs the message and marks the     *)
(* test failed; it returns to its caller, so the method goes on.           *)
(***************************************************************************)
NewT == [errors |-> <<>>, failed |-> FALSE]

TError(tt, msg) == [errors |-> Append(tt.errors, msg), failed |-> TRUE]

\* What a method hands back: the wrapper it returns and the test context after it.
Outcome(ret, tt) == [ret |-> ret, t |-> tt]

(***************************************************************************)
(* assert/string.go: options and constructor.                              *)
(***************************************************************************)
Nil == "nil"

StringOpts == {"IgnoringCase", "IgnoringWhiteSpaces", Nil}

\* IgnoringCase whose assignment is lost: the option leaves the wrapper as it was.
IgnoringCase_Dropped(c) == c

IgnoringCase(c) == [c EXCEPT !.actual = AddDecorator(c.actual, "ToLower")]

IgnoringWhiteSpaces(c) == [c EXCEPT !.actual = AddDecorator(c.actual, "RemoveSpaces")]

\* opt(assertable) for a non-nil option.
ApplyOpt(opt, c) ==
    CASE opt = "IgnoringCase" -> IgnoringCase(c)
      [] opt = "IgnoringWhiteSpaces" -> IgnoringWhiteSpaces(c)

\* for _, opt := range opts { if opt != nil { opt(assertable) } }
RECURSIVE RangeOpts(_, _)
RangeOpts(assertable, os) ==
    IF os = <<>> THEN assertable
    ELSE RangeOpts(IF Head(os) # Nil THEN ApplyOpt(Head(os), assertable) ELSE assertable,
                   Tail(os))

\* ThatString that stops after its first option.
ThatString_FirstOptionOnly(actual, os) ==
    RangeOpts([t |-> "t", actual |-> NewStringValue(actual)],
              IF os = <<>> THEN os ELSE <<Head(os)>>)

ThatString(actual, os) ==
    RangeOpts([t |-> "t", actual |-> NewStringValue(actual)], os)

(***************************************************************************)
(* The second copy of the string facade (the one that has IgnoringCase     *)
(* alone): its ThatString calls every option, nil or not.  Calling a nil   *)
(* function value panics, and the constructor does not return.             *)
(***************************************************************************)
\* The options of the second copy.
StringOptsUnguarded == {"IgnoringCase", Nil}

\* What the constructor comes to: the wrapper it returns, unless it panicked.
Returned(w) == [panicked |-> FALSE, ret |-> w]
Panicked(w) == [panicked |-> TRUE, ret |-> w]

\* for _, opt := range opts { opt(assertable) }
RECURSIVE RangeOptsUnguarded(_, _)
RangeOptsUnguarded(assertable, os) ==
    IF os = <<>> THEN Returned(assertable)
    ELSE IF Head(os) = Nil THEN Panicked(assertable)
    ELSE RangeOptsUnguarded(ApplyOpt(Head(os), assertable), Tail(os))

ThatStringUnguarded(actual, os) ==
    RangeOptsUnguarded([t |-> "t", actual |-> NewStringValue(actual)], os)

(***************************************************************************)
(* assert/string.go: the assertion methods.  Each takes the receiver (by   *)
(* value), the test context its t field points to, and its parameter.      *)
(***************************************************************************)
IsEqualTo(w, tt, expected) ==
    IF ~StringValue_IsEqualTo(w.actual, expected)
    THEN Outcome(w, TError(tt, shouldBeEqual(Value(w.actual), expected)))
    ELSE Outcome(w, tt)

\* IsNotEqualTo with its condition negated.
IsNotEqualTo_Inverted(w, tt, expected) ==
    IF ~StringValue_IsEqualTo(w.actual, expected)
    THEN Outcome(w, TError(tt, shouldNotBeEqual(Value(w.actual), expected)))
    ELSE Outcome(w, tt)

IsNotEqualTo(w, tt, expected) ==
    IF StringValue_IsEqualTo(w.actual, expected)
    THEN Outcome(w, TError(tt, shouldNotBeEqual(Value(w.actual), expected)))
    ELSE Outcome(w, tt)

IsEmpty(w, tt) ==
    IF StringValue_IsNotEmpty(w.actual)
    THEN Outcome(w, TError(tt, shouldBeEmpty(Value(w.actual))))
    ELSE Outcome(w, tt)

\* IsLowerCase that folds the wrapper it returns.
IsLowerCase_Folding(w, tt) ==
    IF ~StringValue_IsLowerCase(w.actual)
    THEN Outcome([w EXCEPT !.actual = AddDecorator(w.actual, "ToLower")],
                 TError(tt, shouldBeLowerCase(Value(w.actual))))
    ELSE Outcome(w, tt)

IsLowerCase(w, tt) ==
    IF ~StringValue_IsLowerCase(w.actual)
    THEN Outcome(w, TError(tt, shouldBeLowerCase(Value(w.actual))))
    ELSE Outcome(w, tt)

IsUpperCase(w, tt) ==
    IF ~StringValue_IsUpperCase(w.actual)
    THEN Outcome(w, TError(tt, shouldBeUpperCase(Value(w.actual))))
    ELSE Outcome(w, tt)

\* IsNotEmpty that keeps silent once the test has failed.
IsNotEmpty_SilentAfterFailure(w, tt) ==
    IF StringValue_IsEmpty(w.actual) /\ ~tt.failed
    THEN Outcome(w, TError(tt, shouldNotBeEmpty(Value(w.actual))))
    ELSE Outcome(w, tt)

IsNotEmpty(w, tt) ==
    IF StringValue_IsEmpty(w.actual)
    THEN Outcome(w, TError(tt, shouldNotBeEmpty(Value(w.actual))))
    ELSE Outcome(w, tt)

\* Contains that reports when the negated predicate is false.
Contains_Inverted(w, tt, substring) ==
    IF ~StringValue_DoesNotContain(w.actual, substring)
    THEN Outcome(w, TError(tt, shouldContain(Value(w.actual), substring)))
    ELSE Outcome(w, tt)

Contains(w, tt, substring) ==
    IF StringValue_DoesNotContain(w.actual, substring)
    THEN Outcome(w, TError(tt, shouldContain(Value(w.actual), substring)))
    ELSE Outcome(w, tt)

ContainsIgnoringCase(w, tt, substring) ==
    IF ~StringValue_ContainsIgnoringCase(w.actual, substring)
    THEN Outcome(w, TError(tt, shouldContainIgnoringCase(Value(w.actual), substring)))
    ELSE Outcome(w, tt)

ContainsOnly(w, tt, substring) ==
    IF ~StringValue_ContainsOnly(w.actual, substring)
    THEN Outcome(w, TError(tt, shouldContainOnly(Value(w.actual), substring)))
    ELSE Outcome(w, tt)

\* ContainsOnlyOnce that accepts any number of occurrences but zero.
ContainsOnlyOnce_AtLeastOnce(w, tt, substring) ==
    IF ~StringValue_Contains(w.actual, substring)
    THEN Outcome(w, TError(tt, shouldContainOnlyOnce(Value(w.actual), substring)))
    ELSE Outcome(w, tt)

ContainsOnlyOnce(w, tt, substring) ==
    IF ~StringValue_ContainsOnlyOnce(w.actual, substring)
    THEN Outcome(w, TError(tt, shouldContainOnlyOnce(Value(w.actual), substring)))
    ELSE Outcome(w, tt)

ContainsWhitespaces(w, tt) ==
    IF ~StringValue_ContainsWhitespaces(w.actual)
    THEN Outcome(w, TError(tt, shouldContainWhiteSpace(Value(w.actual))))
    ELSE Outcome(w, tt)

DoesNotContainAnyWhitespaces(w, tt) ==
    IF StringValue_ContainsWhitespaces(w.actual)
    THEN Outcome(w, TError(tt, shouldNotContainAnyWhiteSpace(Value(w.actual))))
    ELSE Outcome(w, tt)

DoesNotContain(w, tt, substring) ==
    IF StringValue_Contains(w.actual, substring)
    THEN Outcome(w, TError(tt, shouldNotContain(Value(w.actual), substring)))
    ELSE Outcome(w, tt)

StartsWith(w, tt, substring) ==
    IF ~StringValue_StartsWith(w.actual, substring)
    THEN Outcome(w, TError(tt, shouldStartWith(Value(w.actual), substring)))
    ELSE Outcome(w, tt)

DoesNotStartWith(w, tt, substring) ==
    IF StringValue_StartsWith(w.actual, substring)
    THEN Outcome(w, TError(tt, shouldNotStartWith(Value(w.actual), substring)))
    ELSE Outcome(w, tt)

EndsWith(w, tt, substring) ==
    IF ~StringValue_EndsWith(w.actual, substring)
    THEN Outcome(w, TError(tt, shouldEndWith(Value(w.actual), substring)))
    ELSE Outcome(w, tt)

DoesNotEndWith(w, tt, substring) ==
    IF StringValue_EndsWith(w.actual, substring)
    THEN Outcome(w, TError(tt, shouldNotEndWith(Value(w.actual), substring)))
    ELSE Outcome(w, tt)

HasSameSizeAs(w, tt, substring) ==
    IF ~(Size(w.actual) = len(substring))
    THEN Outcome(w, TError(tt, shouldHaveSameSizeAs(Value(w.actual), substring)))
    ELSE Outcome(w, tt)

ContainsOnlyDigits(w, tt) ==
    IF ~StringValue_HasDigitsOnly(w.actual)
    THEN Outcome(w, TError(tt, shouldContainOnlyDigits(Value(w.actual))))
    ELSE Outcome(w, tt)

(***************************************************************************)
(* assert/time.go                                                          *)
(***************************************************************************)
ThatTime(actual) == [t |-> "t", actual |-> NewTimeValue(actual)]

IsSameAs(w, tt, expected) ==
    IF TimeValue_IsNotSameAs(w.actual, expected)
    THEN Outcome(w, TError(tt, shouldBeEqual(TimeValue_Value(w.actual), expected)))
    ELSE Outcome(w, tt)

IsNotTheSameAs(w, tt, expected) ==
    IF TimeValue_IsSameAs(w.actual, expected)
    THEN Outcome(w, TError(tt, shouldNotBeEqual(TimeValue_Value(w.actual), expected)))
    ELSE Outcome(w, tt)

\* IsBefore that accepts an equal instant.
IsBefore_NotStrict(w, tt, expected) ==
    IF TimeValue_IsAfter(w.actual, expected)
    THEN Outcome(w, TError(tt, shouldBeGreater(TimeValue_Value(w.actual), expected)))
    ELSE Outcome(w, tt)

IsBefore(w, tt, expected) ==
    IF ~TimeValue_IsBefore(w.actual, expected)
    THEN Outcome(w, TError(tt, shouldBeGreater(TimeValue_Value(w.actual), expected)))
    ELSE Outcome(w, tt)

IsAfter(w, tt, expected) ==
    IF ~TimeValue_IsAfter(w.actual, expected)
    THEN Outcome(w, TError(tt, shouldBeGreaterOrEqual(TimeValue_Value(w.actual), expected)))
    ELSE Outcome(w, tt)

(***************************************************************************)
(* The inputs a test may pass.                                             *)
(***************************************************************************)
RawStrings ==
    { <<>>,
      <<"A", " ", "B">>,
      <<"a", "b", "c">>,
      <<"A", "B", "C">>,
      <<"a", "B", "c">>,
      <<"a", "X", "b", "X", "c">>,
      <<"a", "X", "b", "c">>,
      <<"x", "y", "z">>,
      <<"x", "y">>,
      <<"a", "b">>,
      <<"eacute">>,
      <<"1", "2">>,
      <<"a", "\t">> }

ArgStrings == RawStrings \cup { <<"X">>, <<"a">>, <<"c">> }

\* Option lists of up to MaxOpts options, nil entries included.
OptLists == UNION { [1..n -> StringOpts] : n \in 0..MaxOpts }

Times == [inst : 0..MaxTime, loc : {"UTC", "Local"}]

\* The smaller inputs of the runs that chain several calls.
ChainStrings == { <<>>, <<"A", " ", "B">>, <<"a", "X", "b", "X", "c">> }
ChainArgs == { <<"a">>, <<"a", "b">> }
ChainOptLists == { <<>>, <<"IgnoringCase", "IgnoringWhiteSpaces">> }
ChainTimeArgs == { [inst |-> 1, loc |-> "UTC"], [inst |-> 1, loc |-> "Local"] }

NoArg == <<>>

NoWrapper == [t |-> Nil, actual |-> NewStringValue(<<>>)]

(***************************************************************************)
(* The state machine: a test constructs one wrapper and chains calls on    *)
(* the wrapper each call returns.                                          *)
(*   pc     "start" before the constructor, then the kind of the wrapper   *)
(*   raw    the value passed to the constructor                            *)
(*   opts   the options passed to the constructor                          *)
(*   first  the wrapper the constructor returned, kept by the caller       *)
(*   a      the wrapper returned by the latest call of the chain           *)
(*   t      the test context: the messages reported, and the failed mark   *)
(*   calls  the calls made so far, each with the messages it added         *)
(*   left   the number of calls the test still makes                       *)
(***************************************************************************)
Init ==
    /\ pc = "start"
    /\ raw = <<>>
    /\ opts = <<>>
    /\ first = NoWrapper
    /\ a = NoWrapper
    /\ t = NewT
    /\ calls = <<>>
    /\ left = 1

InitChain ==
    /\ pc = "start"
    /\ raw = <<>>
    /\ opts = <<>>
    /\ first = NoWrapper
    /\ a = NoWrapper
    /\ t = NewT
    /\ calls = <<>>
    /\ left = MaxCalls

CallThatString(Raws, Lists) ==
    /\ pc = "start"
    /\ \E actual \in Raws, os \in Lists :
          /\ raw' = actual
          /\ opts' = os
          /\ first' = ThatString(actual, os)
          /\ a' = ThatString(actual, os)
    /\ pc' = "string"
    /\ UNCHANGED <<t, calls, left>>

CallThatTime ==
    /\ pc = "start"
    /\ \E actual \in Times :
          /\ raw' = actual
          /\ first' = ThatTime(actual)
          /\ a' = ThatTime(actual)
    /\ pc' = "time"
    /\ UNCHANGED <<opts, t, calls, left>>

\* One call of the chain: the caller goes on with the returned wrapper, and the
\* test context is the one the method left.
Step(m, arg, out) ==
    /\ left > 0
    /\ a' = out.ret
    /\ t' = out.t
    /\ calls' = Append(calls, [m |-> m, arg |-> arg,
                               reported |-> SubSeq(out.t.errors, Len(t.errors) + 1,
                                                   Len(out.t.errors))])
    /\ left' = left - 1
    /\ UNCHANGED <<pc, raw, opts, first>>

CallIsEqualTo(Args) ==
    pc = "string" /\ \E e \in Args : Step("IsEqualTo", e, IsEqualTo(a, t, e))
CallIsNotEqualTo(Args) ==
    pc = "string" /\ \E e \in Args : Step("IsNotEqualTo", e, IsNotEqualTo(a, t, e))
CallIsEmpty ==
    pc = "string" /\ Step("IsEmpty", NoArg, IsEmpty(a, t))
CallIsLowerCase ==
    pc = "string" /\ Step("IsLowerCase", NoArg, IsLowerCase(a, t))
CallIsUpperCase ==
    pc = "string" /\ Step("IsUpperCase", NoArg, IsUpperCase(a, t))
CallIsNotEmpty ==
    pc = "string" /\ Step("IsNotEmpty", NoArg, IsNotEmpty(a, t))
CallContains(Args) ==
    pc = "string" /\ \E e \in Args : Step("Contains", e, Contains(a, t, e))
CallContainsIgnoringCase(Args) ==
    pc = "string" /\ \E e \in Args : Step("ContainsIgnoringCase", e, ContainsIgnoringCase(a, t, e))
CallContainsOnly(Args) ==
    pc = "string" /\ \E e \in Args : Step("ContainsOnly", e, ContainsOnly(a, t, e))
CallContainsOnlyOnce(Args) ==
    pc = "string" /\ \E e \in Args : Step("ContainsOnlyOnce", e, ContainsOnlyOnce(a, t, e))
CallContainsWhitespaces ==
    pc = "string" /\ Step("ContainsWhitespaces", NoArg, ContainsWhitespaces(a, t))
CallDoesNotContainAnyWhitespaces ==
    pc = "string" /\ Step("DoesNotContainAnyWhitespaces", NoArg, DoesNotContainAnyWhitespaces(a, t))
CallDoesNotContain(Args) ==
    pc = "string" /\ \E e \in Args : Step("DoesNotContain", e, DoesNotContain(a, t, e))
CallStartsWith(Args) ==
    pc = "string" /\ \E e \in Args : Step("StartsWith", e, StartsWith(a, t, e))
CallDoesNotStartWith(Args) ==
    pc = "string" /\ \E e \in Args : Step("DoesNotStartWith", e, DoesNotStartWith(a, t, e))
CallEndsWith(Args) ==
    pc = "string" /\ \E e \in Args : Step("EndsWith", e, EndsWith(a, t, e))
CallDoesNotEndWith(Args) ==
    pc = "string" /\ \E e \in Args : Step("DoesNotEndWith", e, DoesNotEndWith(a, t, e))
CallHasSameSizeAs(Args) ==
    pc = "string" /\ \E e \in Args : Step("HasSameSizeAs", e, HasSameSizeAs(a, t, e))
CallContainsOnlyDigits ==
    pc = "string" /\ Step("ContainsOnlyDigits", NoArg, ContainsOnlyDigits(a, t))

CallIsSameAs(Args) ==
    pc = "time" /\ \E e \in Args : Step("IsSameAs", e, IsSameAs(a, t, e))
CallIsNotTheSameAs(Args) ==
    pc = "time" /\ \E e \in Args : Step("IsNotTheSameAs", e, IsNotTheSameAs(a, t, e))
CallIsBefore(Args) ==
    pc = "time" /\ \E e \in Args : Step("IsBefore", e, IsBefore(a, t, e))
CallIsAfter(Args) ==
    pc = "time" /\ \E e \in Args : Step("IsAfter", e, IsAfter(a, t, e))

\* The calls a test may make, with string arguments from SArgs and times from TArgs.
Assertions(SArgs, TArgs) ==
    \/ CallIsEqualTo(SArgs)
    \/ CallIsNotEqualTo(SArgs)
    \/ CallIsEmpty
    \/ CallIsLowerCase
    \/ CallIsUpperCase
    \/ CallIsNotEmpty
    \/ CallContains(SArgs)
    \/ CallContainsIgnoringCase(SArgs)
    \/ CallContainsOnly(SArgs)
    \/ CallContainsOnlyOnce(SArgs)
    \/ CallContainsWhitespaces
    \/ CallDoesNotContainAnyWhitespaces
    \/ CallDoesNotContain(SArgs)
    \/ CallStartsWith(SArgs)
    \/ CallDoesNotStartWith(SArgs)
    \/ CallEndsWith(SArgs)
    \/ CallDoesNotEndWith(SArgs)
    \/ CallHasSameSizeAs(SArgs)
    \/ CallContainsOnlyDigits
    \/ CallIsSameAs(TArgs)
    \/ CallIsNotTheSameAs(TArgs)
    \/ CallIsBefore(TArgs)
    \/ CallIsAfter(TArgs)

\* One assertion on any wrapper, with any argument.
Next ==
    \/ CallThatString(RawStrings, OptLists)
    \/ CallThatTime
    \/ Assertions(ArgStrings, Times)

Spec == Init /\ [][Next]_vars

\* Chains of up to MaxCalls assertions on one wrapper.
NextChain ==
    \/ CallThatString(ChainStrings, ChainOptLists)
    \/ CallThatTime
    \/ Assertions(ChainArgs, ChainTimeArgs)

SpecChain == InitChain /\ [][NextChain]_vars

\* Option lists of the second copy of the facade, nil entries included.
OptListsUnguarded == UNION { [1..n -> StringOptsUnguarded] : n \in 0..MaxOpts }

\* The constructor of the second copy: it returns the wrapper, or panics.
CallThatStringUnguarded(Raws, Lists) ==
    /\ pc = "start"
    /\ \E actual \in Raws, os \in Lists :
          /\ raw' = actual
          /\ opts' = os
          /\ IF ThatStringUnguarded(actual, os).panicked
             THEN /\ pc' = "panic"
                  /\ UNCHANGED <<first, a>>
             ELSE /\ pc' = "string"
                  /\ first' = ThatStringUnguarded(actual, os).ret
                  /\ a' = ThatStringUnguarded(actual, os).ret
    /\ UNCHANGED <<t, calls, left>>

\* Construction alone, by either copy of ThatString.
NextConstruct ==
    \/ CallThatString(RawStrings, OptLists)
    \/ CallThatStringUnguarded(RawStrings, OptListsUnguarded)

SpecConstruct == Init /\ [][NextConstruct]_vars

(***************************************************************************)
(* Vocabulary of the properties.                                           *)
(***************************************************************************)
\* The predicate a method asserts, on the value library's own predicates.
Holds(m, w, arg) ==
    CASE m = "IsEqualTo" -> StringValue_IsEqualTo(w.actual, arg)
      [] m = "IsNotEqualTo" -> ~StringValue_IsEqualTo(w.actual, arg)
      [] m = "IsEmpty" -> StringValue_IsEmpty(w.actual)
      [] m = "IsLowerCase" -> StringValue_IsLowerCase(w.actual)
      [] m = "IsUpperCase" -> StringValue_IsUpperCase(w.actual)
      [] m = "IsNotEmpty" -> StringValue_IsNotEmpty(w.actual)
      [] m = "Contains" -> StringValue_Contains(w.actual, arg)
      [] m = "ContainsIgnoringCase" -> StringValue_ContainsIgnoringCase(w.actual, arg)
      [] m = "ContainsOnly" -> StringValue_ContainsOnly(w.actual, arg)
      [] m = "ContainsOnlyOnce" -> StringValue_ContainsOnlyOnce(w.actual, arg)
      [] m = "ContainsWhitespaces" -> StringValue_ContainsWhitespaces(w.actual)
      [] m = "DoesNotContainAnyWhitespaces" -> ~StringValue_ContainsWhitespaces(w.actual)
      [] m = "DoesNotContain" -> StringValue_DoesNotContain(w.actual, arg)
      [] m = "StartsWith" -> StringValue_StartsWith(w.actual, arg)
      [] m = "DoesNotStartWith" -> ~StringValue_StartsWith(w.actual, arg)
      [] m = "EndsWith" -> StringValue_EndsWith(w.actual, arg)
      [] m = "DoesNotEndWith" -> ~StringValue_EndsWith(w.actual, arg)
      [] m = "HasSameSizeAs" -> Size(w.actual) = len(arg)
      [] m = "ContainsOnlyDigits" -> StringValue_HasDigitsOnly(w.actual)
      [] m = "IsSameAs" -> TimeValue_IsSameAs(w.actual, arg)
      [] m = "IsNotTheSameAs" -> TimeValue_IsNotSameAs(w.actual, arg)
      [] m = "IsBefore" -> TimeValue_IsBefore(w.actual, arg)
      [] m = "IsAfter" -> TimeValue_IsAfter(w.actual, arg)

\* The messages of a list of calls, in the order of the calls.
RECURSIVE AllReported(_)
AllReported(cs) == IF cs = <<>> THEN <<>> ELSE Head(cs).reported \o AllReported(Tail(cs))

\* The value a diagnostic of the wrapper prints.
Printed(w) == IF pc = "time" THEN TimeValue_Value(w.actual) ELSE Value(w.actual)

\* The options' transformations applied to a string one after another, left to right.
Transform(o, s) ==
    CASE o = "IgnoringCase" -> ToLower(s)
      [] o = "IgnoringWhiteSpaces" -> RemoveSpaces(s)

RECURSIVE InOrder(_, _)
InOrder(os, s) == IF os = <<>> THEN s ELSE InOrder(Tail(os), Transform(Head(os), s))

NoNil(os) == \A i \in 1..Len(os) : os[i] # Nil

\* The number of places of v at which p occurs.
Occurrences(v, p) ==
    Cardinality({ i \in 1..(Len(v) - Len(p) + 1) : SubSeq(v, i, i + Len(p) - 1) = p })

\* The single call of a run that has made exactly one.
OneCall(m) == Len(calls) = 1 /\ calls[1].m = m

Passed(out) == out.t.errors = <<>>

(***************************************************************************)
(* C1.  In a chain of assertions on one wrapper, t.Error is invoked        *)
(* exactly once for each call whose predicate is false and not at all for  *)
(* a call whose predicate is true; the reports are in the order of the     *)
(* calls; a failure does not stop the chain: every later call is still     *)
(* evaluated on the wrapper, whatever failed before it.                    *)
(***************************************************************************)
C1_ChainReports ==
    pc # "start" =>
        /\ t.errors = AllReported(calls)
        /\ \A i \in 1..Len(calls) :
              /\ Len(calls[i].reported) = (IF Holds(calls[i].m, first, calls[i].arg) THEN 0 ELSE 1)
              /\ \A j \in 1..Len(calls[i].reported) :
                    calls[i].reported[j].args[1] = Printed(first)
        /\ t.failed = (t.errors # <<>>)
        /\ Len(calls) + left = MaxCalls

C1_Witness ==
    /\ Len(calls) >= 2
    /\ calls[1].m # calls[2].m
    /\ calls[1].reported # <<>>
    /\ calls[2].reported # <<>>
    /\ Len(t.errors) = 2
    /\ t.errors[1] = calls[1].reported[1]
    /\ t.errors[2] = calls[2].reported[1]

(***************************************************************************)
(* C2.  After ThatString(t, raw, opts...) with each option IgnoringCase or *)
(* IgnoringWhiteSpaces, the value the predicates see is raw transformed by *)
(* the options one after another, left to right, each exactly once; "A B"  *)
(* with IgnoringCase then IgnoringWhiteSpaces materializes to "ab".        *)
(***************************************************************************)
C2_OptionsInOrder ==
    (pc = "string" /\ NoNil(opts)) =>
        /\ DecoratedValue(a.actual) = InOrder(opts, raw)
        /\ Len(a.actual.decorators) = Len(opts)
        /\ (raw = <<"A", " ", "B">> /\ opts = <<"IgnoringCase", "IgnoringWhiteSpaces">>)
              => DecoratedValue(a.actual) = <<"a", "b">>

C2_Witness ==
    /\ pc = "string"
    /\ raw = <<"A", " ", "B">>
    /\ opts = <<"IgnoringCase", "IgnoringWhiteSpaces">>
    /\ DecoratedValue(a.actual) = <<"a", "b">>

(***************************************************************************)
(* C3.  ThatString(t, S, IgnoringCase()).IsEqualTo("ABC") reports no       *)
(* failure for S = "abc", "ABC" and "aBc".                                 *)
(***************************************************************************)
C3_CaseFoldEquality ==
    ( /\ pc = "string"
      /\ opts = <<"IgnoringCase">>
      /\ raw \in { <<"a", "b", "c">>, <<"A", "B", "C">>, <<"a", "B", "c">> }
      /\ OneCall("IsEqualTo")
      /\ calls[1].arg = <<"A", "B", "C">> )
    => (t.errors = <<>> /\ ~t.failed)

C3_Witness ==
    /\ pc = "string"
    /\ opts = <<"IgnoringCase">>
    /\ raw = <<"a", "B", "c">>
    /\ OneCall("IsEqualTo")
    /\ calls[1].arg = <<"A", "B", "C">>
    /\ t.errors = <<>>

(***************************************************************************)
(* C4.  Once the constructor has returned, the wrapper is immutable: after *)
(* any sequence of assertion calls, passing or failing, the wrapper the    *)
(* chain goes on with equals the one the constructor returned (value and   *)
(* decorator chain), every diagnostic printed the value fixed at           *)
(* construction, and the wrapper the caller kept is the constructed one.   *)
(***************************************************************************)
C4_WrapperImmutable ==
    pc # "start" =>
        /\ a = first
        /\ first = (IF pc = "time" THEN ThatTime(raw) ELSE ThatString(raw, opts))
        /\ \A i \in 1..Len(t.errors) : t.errors[i].args[1] = Printed(first)

C4_Witness ==
    /\ pc = "string"
    /\ Len(calls) >= 2
    /\ calls[1].reported # <<>>
    /\ a.actual.decorators # <<>>
    /\ a = first

(***************************************************************************)
(* C5.  For every string s wrapped with no decorators, IsEqualTo(s)        *)
(* reports no failure and IsNotEqualTo(s) reports exactly one.             *)
(***************************************************************************)
C5_EqualityReflexive ==
    (pc = "string" /\ opts = <<>> /\ Len(calls) = 1) =>
        /\ (calls[1].m = "IsEqualTo" /\ calls[1].arg = raw) => Len(t.errors) = 0
        /\ (calls[1].m = "IsNotEqualTo" /\ calls[1].arg = raw) => Len(t.errors) = 1

C5_Witness ==
    /\ pc = "string"
    /\ opts = <<>>
    /\ raw = <<"a", "X", "b", "c">>
    /\ OneCall("IsNotEqualTo")
    /\ calls[1].arg = raw
    /\ Len(t.errors) = 1

(***************************************************************************)
(* C6.  Time ordering is strict: for instants t1 < t2, IsBefore(t2) on t1  *)
(* reports no failure and IsAfter(t2) on t1 reports one; IsBefore(t1) on   *)
(* t1 reports one; for no pair of instants do IsBefore and IsAfter both    *)
(* pass, and for equal instants neither passes.                            *)
(***************************************************************************)
C6_StrictTimeOrder ==
    (pc = "time" /\ Len(calls) = 1) =>
        /\ (calls[1].m = "IsBefore" /\ raw.inst < calls[1].arg.inst) => Len(t.errors) = 0
        /\ (calls[1].m = "IsAfter" /\ raw.inst < calls[1].arg.inst) => Len(t.errors) = 1
        /\ (calls[1].m = "IsBefore" /\ raw.inst = calls[1].arg.inst) => Len(t.errors) = 1
        /\ \A e \in Times :
              /\ ~(Passed(IsBefore(a, NewT, e)) /\ Passed(IsAfter(a, NewT, e)))
              /\ raw.inst = e.inst =>
                    (~Passed(IsBefore(a, NewT, e)) /\ ~Passed(IsAfter(a, NewT, e)))

C6_Witness ==
    /\ pc = "time"
    /\ OneCall("IsBefore")
    /\ raw.inst < calls[1].arg.inst
    /\ raw.loc # calls[1].arg.loc
    /\ t.errors = <<>>

(***************************************************************************)
(* C7.  ContainsOnlyOnce(sub) passes exactly when sub occurs in the        *)
(* materialized actual string exactly one time: "aXbXc"/"X" fails,         *)
(* "aXbc"/"X" passes, "abc"/"X" fails.                                     *)
(***************************************************************************)
C7_ContainsOnlyOnce ==
    (pc = "string" /\ OneCall("ContainsOnlyOnce")) =>
        /\ (t.errors = <<>>) <=> (Occurrences(DecoratedValue(first.actual), calls[1].arg) = 1)
        /\ Len(t.errors) <= 1
        /\ (opts = <<>> /\ calls[1].arg = <<"X">>) =>
              /\ raw = <<"a", "X", "b", "X", "c">> => Len(t.errors) = 1
              /\ raw = <<"a", "X", "b", "c">> => Len(t.errors) = 0
              /\ raw = <<"a", "b", "c">> => Len(t.errors) = 1

C7_Witness ==
    /\ pc = "string"
    /\ opts = <<>>
    /\ raw = <<"a", "X", "b", "X", "c">>
    /\ OneCall("ContainsOnlyOnce")
    /\ calls[1].arg = <<"X">>
    /\ Len(t.errors) = 1

(***************************************************************************)
(* C8.  HasSameSizeAs(expected) passes exactly when the character count of *)
(* the actual value equals the character count of expected, and it is      *)
(* symmetric: ThatString(x).HasSameSizeAs(y) passes iff                    *)
(* ThatString(y).HasSameSizeAs(x) passes.                                  *)
(***************************************************************************)
C8_SameSizeSymmetric ==
    (pc = "string" /\ OneCall("HasSameSizeAs")) =>
        /\ (t.errors = <<>>) <=> (Len(DecoratedValue(first.actual)) = Len(calls[1].arg))
        /\ opts = <<>> =>
              ((t.errors = <<>>)
                  <=> Passed(HasSameSizeAs(ThatString(calls[1].arg, <<>>), NewT, raw)))

(***************************************************************************)
(* C9.  Each failed assertion produces exactly one diagnostic, built from  *)
(* the template of the relation the method asserted (a failed IsBefore is  *)
(* reported as "less than", a failed IsAfter as "greater than", a failed   *)
(* IsEqualTo as "equal to"), with the post-decorator actual value and the  *)
(* parameter in it.                                                        *)
(***************************************************************************)
TemplateOf(m) ==
    CASE m = "IsEqualTo" -> shouldBeEqual(0, 0).format
      [] m = "IsNotEqualTo" -> shouldNotBeEqual(0, 0).format
      [] m = "IsEmpty" -> shouldBeEmpty(0).format
      [] m = "IsLowerCase" -> shouldBeLowerCase(0).format
      [] m = "IsUpperCase" -> shouldBeUpperCase(0).format
      [] m = "IsNotEmpty" -> shouldNotBeEmpty(0).format
      [] m = "Contains" -> shouldContain(0, 0).format
      [] m = "ContainsIgnoringCase" -> shouldContainIgnoringCase(0, 0).format
      [] m = "ContainsOnly" -> shouldContainOnly(0, 0).format
      [] m = "ContainsOnlyOnce" -> shouldContainOnlyOnce(0, 0).format
      [] m = "ContainsWhitespaces" -> shouldContainWhiteSpace(0).format
      [] m = "DoesNotContainAnyWhitespaces" -> shouldNotContainAnyWhiteSpace(0).format
      [] m = "DoesNotContain" -> shouldNotContain(0, 0).format
      [] m = "StartsWith" -> shouldStartWith(0, 0).format
      [] m = "DoesNotStartWith" -> shouldNotStartWith(0, 0).format
      [] m = "EndsWith" -> shouldEndWith(0, 0).format
      [] m = "DoesNotEndWith" -> shouldNotEndWith(0, 0).format
      [] m = "HasSameSizeAs" -> shouldHaveSameSizeAs(0, 0).format
      [] m = "ContainsOnlyDigits" -> shouldContainOnlyDigits(0).format
      [] m = "IsSameAs" -> shouldBeEqual(0, 0).format
      [] m = "IsNotTheSameAs" -> shouldNotBeEqual(0, 0).format
      [] m = "IsBefore" -> shouldBeLessThan(0, 0).format
      [] m = "IsAfter" -> shouldBeGreater(0, 0).format

C9_TemplateOfRelation ==
    \A i \in 1..Len(calls) :
        calls[i].reported # <<>> =>
            /\ Len(calls[i].reported) = 1
            /\ calls[i].reported[1].format = TemplateOf(calls[i].m)
            /\ calls[i].reported[1].args[1] = Printed(first)

(***************************************************************************)
(* C10.  An assertion and its named negation are exact complements on the  *)
(* same wrapper and parameter: of IsEqualTo/IsNotEqualTo, IsEmpty/         *)
(* IsNotEmpty, Contains/DoesNotContain, StartsWith/DoesNotStartWith,       *)
(* EndsWith/DoesNotEndWith, ContainsWhitespaces/                           *)
(* DoesNotContainAnyWhitespaces and IsSameAs/IsNotTheSameAs, exactly one   *)
(* reports a failure.                                                      *)
(***************************************************************************)
Paired ==
    { "IsEqualTo", "IsNotEqualTo", "IsEmpty", "IsNotEmpty", "Contains", "DoesNotContain",
      "StartsWith", "DoesNotStartWith", "EndsWith", "DoesNotEndWith",
      "ContainsWhitespaces", "DoesNotContainAnyWhitespaces", "IsSameAs", "IsNotTheSameAs" }

\* The named negation of method m, called on the same wrapper and parameter.
Negation(m, w, tt, arg) ==
    CASE m = "IsEqualTo" -> IsNotEqualTo(w, tt, arg)
      [] m = "IsNotEqualTo" -> IsEqualTo(w, tt, arg)
      [] m = "IsEmpty" -> IsNotEmpty(w, tt)
      [] m = "IsNotEmpty" -> IsEmpty(w, tt)
      [] m = "Contains" -> DoesNotContain(w, tt, arg)
      [] m = "DoesNotContain" -> Contains(w, tt, arg)
      [] m = "StartsWith" -> DoesNotStartWith(w, tt, arg)
      [] m = "DoesNotStartWith" -> StartsWith(w, tt, arg)
      [] m = "EndsWith" -> DoesNotEndWith(w, tt, arg)
      [] m = "DoesNotEndWith" -> EndsWith(w, tt, arg)
      [] m = "ContainsWhitespaces" -> DoesNotContainAnyWhitespaces(w, tt)
      [] m = "DoesNotContainAnyWhitespaces" -> ContainsWhitespaces(w, tt)
      [] m = "IsSameAs" -> IsNotTheSameAs(w, tt, arg)
      [] m = "IsNotTheSameAs" -> IsSameAs(w, tt, arg)

C10_ExactComplements ==
    (Len(calls) = 1 /\ calls[1].m \in Paired) =>
        Len(calls[1].reported) + Len(Negation(calls[1].m, a, NewT, calls[1].arg).t.errors) = 1

C10_Witness ==
    /\ pc = "string"
    /\ OneCall("Contains")
    /\ Len(calls[1].reported) = 1
    /\ Passed(DoesNotContain(a, NewT, calls[1].arg))

(***************************************************************************)
(* C11.  ThatString tolerates nil options: for any option list the         *)
(* construction completes without failing, and the wrapper it returns is   *)
(* the one obtained from the same list with its nil entries removed, the   *)
(* other options applied in their original relative order.                 *)
(***************************************************************************)
WithoutNil(os) == SelectSeq(os, LAMBDA o : o # Nil)

C11_NilOptionsTolerated ==
    (pc # "start" /\ calls = <<>>) =>
        /\ pc = "string"
        /\ a.actual.value = raw
        /\ Len(a.actual.decorators) = Len(WithoutNil(opts))
        /\ DecoratedValue(a.actual) = InOrder(WithoutNil(opts), raw)
        /\ a = ThatString(raw, WithoutNil(opts))

\* The same statement of the constructor of assert/string.go alone, which skips nil.
C11_GuardedCopy ==
    (pc = "string" /\ calls = <<>>) =>
        /\ a.actual.value = raw
        /\ Len(a.actual.decorators) = Len(WithoutNil(opts))
        /\ DecoratedValue(a.actual) = InOrder(WithoutNil(opts), raw)

====
